---- MODULE Spec2Model ----
(***************************************************************************)
(* Expense tracker: the category/expense store (db_operations.py), the     *)
(* add-expense form (ui_components.py) and the receipt upload              *)
(* (dropbox_upload.py).                                                    *)
(*                                                                         *)
(* Strings the code transforms character by character (category names,     *)
(* the amount text) are sequences of one-character strings.  A month       *)
(* label "Mon-YY" is the record [mon, yy] of its two dash-separated        *)
(* fields; the empty string is NoLabel.     Amounts are integers in        *)
(* tenths of a currency unit.  Dates are records [y, m, d].                *)
(***************************************************************************)
EXTENDS Integers, Sequences, FiniteSets, TLC

\* ----------------------------------------------------------------- bounds
MaxCategories == 2
MaxExpenses == 2

\* ------------------------------------------------------------ input sets
\* texts typed into "New Category"
RawNames == { <<"f">>, <<"F">>, <<" ", "f">>, <<"g">>, <<>> }

\* names handed to add_category by a direct caller
ApiNames == { <<"f">>, <<"F">>, <<" ", "f">>, <<"g">> }

\* category names handed to add_expense by a direct caller
ExpenseCategoryInputs == { <<"f">>, <<"G">>, <<"x">> }

\* st.selectbox over an empty option list yields None
NoCategory == << "<None>" >>

\* amounts (tenths) handed to add_expense by a direct caller
ApiAmounts == { 50, 100 }

\* texts typed into the "Amount" input
AmountInputs ==
    { <<"5">>, <<"-", "5">>, <<"0">>, <<"a">>, <<"$", "1", "0">>, <<"1", ".", ".">> }

\* dates a direct caller stores; the form's date_input offers the recent ones
ApiDates ==
    { [y |-> 1924, m |-> 1, d |-> 31], [y |-> 2023, m |-> 12, d |-> 31],
      [y |-> 2024, m |-> 1, d |-> 31], [y |-> 2024, m |-> 2, d |-> 1] }
FormDates == { dt \in ApiDates : dt.y >= 2023 }

\* ------------------------------------------------------- str.upper/strip
UpperChar(c) ==
    CASE c = "f" -> "F"
      [] c = "g" -> "G"
      [] c = "x" -> "X"
      [] OTHER -> c

\* str.upper()
ToUpper(s) == [i \in 1..Len(s) |-> UpperChar(s[i])]

RECURSIVE LStrip(_)
LStrip(s) == IF s # <<>> /\ Head(s) = " " THEN LStrip(Tail(s)) ELSE s

RECURSIVE RStrip(_)
RStrip(s) ==
    IF s # <<>> /\ s[Len(s)] = " " THEN RStrip(SubSeq(s, 1, Len(s) - 1)) ELSE s

\* str.strip()
Strip(s) == RStrip(LStrip(s))

\* code points, for the ordering of text columns
CharCode(c) ==
    CASE c = " " -> 32
      [] c = "F" -> 70
      [] c = "G" -> 71
      [] c = "X" -> 88
      [] c = "f" -> 102
      [] c = "g" -> 103
      [] c = "x" -> 120
      [] OTHER -> 0

RECURSIVE StrLess(_, _)
StrLess(a, b) ==
    IF a = <<>> THEN b # <<>>
    ELSE IF b = <<>> THEN FALSE
    ELSE IF Head(a) = Head(b) THEN StrLess(Tail(a), Tail(b))
    ELSE CharCode(Head(a)) < CharCode(Head(b))

\* ------------------------------------------------------------------ state
VARIABLES
    categories,   \* table categories: sequence of [name]; id = position
    expenses,     \* table expenses: sequence of rows; id = position
    pc,           \* position of the Save Expense handler: "idle" | "uploading"
    form,         \* the submitted form while its receipt upload is pending
    ret,          \* outcome of the last operation
    selected_month,     \* st.session_state["selected_month"]
    show_add_expense    \* st.session_state["show_add_expense"]

vars == <<categories, expenses, pc, form, ret, selected_month, show_add_expense>>

\* the session variables
session == <<selected_month, show_add_expense>>

NULL == "null"
ReceiptUrl == "url"

NoForm == [text |-> <<>>, amount |-> 0, category |-> NoCategory, date |-> [y |-> 0, m |-> 0, d |-> 0]]

NoLabel == [mon |-> "", yy |-> -1]

NoKey == [y |-> 0, m |-> 0]

\* "selected_month" not in st.session_state
Unset == [mon |-> "<unset>", yy |-> -1]

Ret(op) ==
    [op |-> op, name |-> <<>>, ok |-> FALSE, err |-> "none", label |-> NoLabel,
     rows |-> <<>>, text |-> <<>>, receipt |-> FALSE, upload |-> "none",
     key0 |-> NoKey, key |-> NoKey]

Init ==
    /\ categories = <<>>
    /\ expenses = <<>>
    /\ pc = "idle"
    /\ form = NoForm
    /\ ret = Ret("init")
    /\ selected_month = Unset
    /\ show_add_expense = FALSE

\* ------------------------------------------------------ Category Registry
CategoryNames(cats) == { cats[i].name : i \in 1..Len(cats) }

\* slip: the new row takes the first id and the existing rows move
InsertCategoryFirst(cats, name) ==
    IF name \in CategoryNames(cats)
    THEN [raised |-> TRUE, cats |-> cats]
    ELSE [raised |-> FALSE, cats |-> <<[name |-> name]>> \o cats]

\* conn.table("categories").insert({"name": name}): the column is UNIQUE
InsertCategory(cats, name) ==
    IF name \in CategoryNames(cats)
    THEN [raised |-> TRUE, cats |-> cats]
    ELSE [raised |-> FALSE, cats |-> Append(cats, [name |-> name])]

\* db_operations.add_category
add_category(cats, name) ==
    LET r == InsertCategory(cats, ToUpper(name))
    IN  [ok |-> ~r.raised, cats |-> r.cats]

\* a direct call add_category(conn, name)
AddCategory(name) ==
    /\ pc = "idle"
    /\ LET r == add_category(categories, name)
       IN  /\ Len(r.cats) <= MaxCategories
           /\ categories' = r.cats
           /\ ret' = [Ret("add_category") EXCEPT !.name = name, !.ok = r.ok]
    /\ UNCHANGED <<expenses, pc, form, session>>

\* --------------------------------------------------------- Expense Ledger
\* slip: the position counted from the wrong base
ResolveCategoryOffByOne(cats, name) ==
    IF \E i \in 1..Len(cats) : cats[i].name = name
    THEN (CHOOSE i \in 1..Len(cats) : cats[i].name = name) + 1
    ELSE 0

\* .select("id").eq("name", ...).single(): the id of the matching row, 0 for none
ResolveCategory(cats, name) ==
    IF \E i \in 1..Len(cats) : cats[i].name = name
    THEN CHOOSE i \in 1..Len(cats) : cats[i].name = name
    ELSE 0

\* slip: the row is inserted whether or not the category was found
add_expense_unchecked(cats, exps, amount, category, date, receipt_url) ==
    IF category = NoCategory
    THEN [err |-> "AttributeError", exps |-> exps]
    ELSE [err |-> "none",
          exps |-> Append(exps, [amount |-> amount,
                                 category_id |-> ResolveCategory(cats, ToUpper(category)),
                                 date |-> date,
                                 receipt_url |-> receipt_url])]

\* db_operations.add_expense
add_expense(cats, exps, amount, category, date, receipt_url) ==
    IF category = NoCategory
    THEN [err |-> "AttributeError", exps |-> exps]
    ELSE LET category_id == ResolveCategory(cats, ToUpper(category))
         IN  IF category_id = 0
             THEN [err |-> "CategoryNotFound", exps |-> exps]
             ELSE [err |-> "none",
                   exps |-> Append(exps, [amount |-> amount,
                                          category_id |-> category_id,
                                          date |-> date,
                                          receipt_url |-> receipt_url])]

\* a direct call add_expense(conn, amount, category, date, None)
AddExpense(amount, category, date) ==
    /\ pc = "idle"
    /\ Len(expenses) < MaxExpenses
    /\ LET r == add_expense(categories, expenses, amount, category, date, NULL)
       IN  /\ expenses' = r.exps
           /\ ret' = [Ret("add_expense") EXCEPT !.name = category, !.err = r.err,
                                                !.ok = (r.err = "none")]
    /\ UNCHANGED <<categories, pc, form, session>>

\* -------------------------------------------------- Month Label Translator
MonthAbbr ==
    << "Jan", "Feb", "Mar", "Apr", "May", "Jun",
       "Jul", "Aug", "Sep", "Oct", "Nov", "Dec" >>
MonthAbbrLower ==
    << "jan", "feb", "mar", "apr", "may", "jun",
       "jul", "aug", "sep", "oct", "nov", "dec" >>

\* strftime("%Y-%m") of a date: the month key
Ym(date) == [y |-> date.y, m |-> date.m]

\* alphabetical rank of the month abbreviations, by month number
AbbrRank == << 5, 4, 8, 1, 9, 7, 6, 2, 12, 11, 10, 3 >>

\* slip: the aggregates ordered by their display label
YmLessByLabel(a, b) ==
    \/ AbbrRank[a.m] < AbbrRank[b.m]
    \/ a.m = b.m /\ a.y % 100 < b.y % 100
    \/ a.m = b.m /\ a.y % 100 = b.y % 100 /\ a.y < b.y

\* string order of two "YYYY-MM" keys (four-digit years)
YmLess(a, b) == a.y < b.y \/ (a.y = b.y /\ a.m < b.m)

\* slip: the abbreviation looked up as if months were numbered from 0
to_display_zero_based(ym) == [mon |-> MonthAbbr[(ym.m % 12) + 1], yy |-> ym.y % 100]

\* datetime.strptime(x, "%Y-%m").strftime("%b-%y")
to_display(ym) == [mon |-> MonthAbbr[ym.m], yy |-> ym.y % 100]

\* %b of strptime matches the abbreviation whatever its case; 0 for no match
MonthIndex(mon) ==
    IF \E i \in 1..12 : mon \in {MonthAbbr[i], MonthAbbrLower[i]}
    THEN CHOOSE i \in 1..12 : mon \in {MonthAbbr[i], MonthAbbrLower[i]}
    ELSE 0

\* does datetime.strptime(month, "%b-%y") accept the text
Parsable(label) == MonthIndex(label.mon) # 0 /\ label.yy \in 0..99

\* slip: every two-digit year taken to be of this century
PivotYearNoPivot(yy) == 2000 + yy

\* %y of strptime: 69..99 are 1969..1999, 0..68 are 2000..2068
PivotYear(yy) == IF yy >= 69 THEN 1900 + yy ELSE 2000 + yy

\* datetime.strptime(month, "%b-%y"): the first day of the month
to_month_key(label) == [y |-> PivotYear(label.yy), m |-> MonthIndex(label.mon)]

\* slip: the last day of the month (MonthEnd) as the exclusive upper bound
MonthEnd(start) ==
    [y |-> start.y, m |-> start.m,
     d |-> IF start.m = 2 THEN 29 ELSE IF start.m \in {4, 6, 9, 11} THEN 30 ELSE 31]

\* start + pd.offsets.MonthBegin(1), start being a first day of a month
MonthBegin(start) ==
    IF start.m = 12
    THEN [y |-> start.y + 1, m |-> 1, d |-> 1]
    ELSE [y |-> start.y, m |-> start.m + 1, d |-> 1]

\* order of two ISO dates "YYYY-MM-DD"
DateLess(a, b) ==
    \/ a.y < b.y
    \/ a.y = b.y /\ a.m < b.m
    \/ a.y = b.y /\ a.m = b.m /\ a.d < b.d

\* ----------------------------------------------------------------- queries
\* df.groupby("ym")["amount"].sum(): the sum of the amounts of one group
RECURSIVE GroupSum(_, _)
GroupSum(exps, ym) ==
    IF exps = <<>> THEN 0
    ELSE (IF Ym(Head(exps).date) = ym THEN Head(exps).amount ELSE 0)
         + GroupSum(Tail(exps), ym)

\* sort_values("ym"): the keys in ascending order
RECURSIVE SortKeys(_)
SortKeys(keys) ==
    IF keys = {} THEN <<>>
    ELSE LET first == CHOOSE k \in keys : \A o \in keys \ {k} : YmLess(k, o)
         IN  <<first>> \o SortKeys(keys \ {first})

\* db_operations.get_month_totals: rows [month, total]
get_month_totals(exps) ==
    LET keys == { Ym(exps[i].date) : i \in 1..Len(exps) }
        sorted == SortKeys(keys)
    IN  [i \in 1..Len(sorted) |->
            [month |-> to_display(sorted[i]), total |-> GroupSum(exps, sorted[i])]]

\* .gte("date", start).lt("date", end)
InRange(date, start, end) == ~DateLess(date, start) /\ DateLess(date, end)

\* .order("date"): insertion of one row into rows ordered by date
RECURSIVE InsertByDate(_, _)
InsertByDate(rows, r) ==
    IF rows = <<>> THEN <<r>>
    ELSE IF DateLess(r.date, Head(rows).date) THEN <<r>> \o rows
    ELSE <<Head(rows)>> \o InsertByDate(Tail(rows), r)

RECURSIVE OrderByDate(_)
OrderByDate(rows) ==
    IF rows = <<>> THEN <<>>
    ELSE InsertByDate(OrderByDate(SubSeq(rows, 1, Len(rows) - 1)), rows[Len(rows)])

\* the record built from one row of the joined select (a row whose category
\* is missing joins to nothing)
DetailRow(cats, e) ==
    [date |-> e.date,
     category |-> IF e.category_id \in 1..Len(cats)
                  THEN cats[e.category_id].name ELSE NoCategory,
     amount |-> e.amount]

\* db_operations.get_expenses_by_month
get_expenses_by_month(cats, exps, month) ==
    IF month = NoLabel
    THEN [err |-> "none", rows |-> <<>>]
    ELSE IF ~Parsable(month)
    THEN [err |-> "ValueError", rows |-> <<>>]
    ELSE LET key == to_month_key(month)
             start == [y |-> key.y, m |-> key.m, d |-> 1]
             end == MonthBegin(start)
             Selected(e) == InRange(e.date, start, end)
             found == OrderByDate(SelectSeq(exps, Selected))
         IN  [err |-> "none",
              rows |-> [i \in 1..Len(found) |-> DetailRow(cats, found[i])]]

\* labels handed to get_expenses_by_month by a direct caller
LabelInputs ==
    { NoLabel, [mon |-> "Foo", yy |-> 24], [mon |-> "Dec", yy |-> 23],
      [mon |-> "Jan", yy |-> 24], [mon |-> "Feb", yy |-> 24] }

\* a call get_month_totals(conn)
GetMonthTotals ==
    /\ pc = "idle"
    /\ ret' = [Ret("get_month_totals") EXCEPT !.rows = get_month_totals(expenses)]
    /\ UNCHANGED <<categories, expenses, pc, form, session>>

\* a call get_expenses_by_month(conn, month)
GetExpensesByMonth(month) ==
    /\ pc = "idle"
    /\ LET r == get_expenses_by_month(categories, expenses, month)
       IN  ret' = [Ret("get_expenses_by_month") EXCEPT
                       !.label = month, !.err = r.err, !.rows = r.rows]
    /\ UNCHANGED <<categories, expenses, pc, form, session>>

\* ------------------------------------------------------------ Receipt Store
\* what the Dropbox client does during one upload_file call
UploadOutcomes ==
    { "ok", "link_exists", "link_error", "no_client", "auth_error", "api_error",
      "http_error" }

\* dropbox_upload.upload_file: the link, None, or an exception it does not catch
upload_file(outcome) ==
    CASE outcome = "no_client" -> [raised |-> FALSE, url |-> NULL]
      [] outcome = "ok" -> [raised |-> FALSE, url |-> ReceiptUrl]
      [] outcome = "link_exists" -> [raised |-> FALSE, url |-> ReceiptUrl]
      [] outcome = "link_error" -> [raised |-> FALSE, url |-> NULL]
      [] outcome = "auth_error" -> [raised |-> FALSE, url |-> NULL]
      [] outcome = "api_error" -> [raised |-> FALSE, url |-> NULL]
      [] OTHER -> [raised |-> TRUE, url |-> NULL]

\* ------------------------------------------------------- add-expense form
\* .order("name"): insertion of one name into names in ascending order
RECURSIVE InsertByName(_, _)
InsertByName(names, n) ==
    IF names = <<>> THEN <<n>>
    ELSE IF StrLess(n, Head(names)) THEN <<n>> \o names
    ELSE <<Head(names)>> \o InsertByName(Tail(names), n)

RECURSIVE OrderByName(_)
OrderByName(cats) ==
    IF cats = <<>> THEN <<>>
    ELSE InsertByName(OrderByName(SubSeq(cats, 1, Len(cats) - 1)), cats[Len(cats)].name)

\* slip: the names in the order of insertion, the order("name") left out
get_categories_unordered(cats) == [i \in 1..Len(cats) |-> cats[i].name]

\* db_operations.get_categories
get_categories(cats) == OrderByName(cats)

IsAmountChar(c) == c \in {"0", "1", "5", "."}

\* re.sub(r"[^0-9.]", "", amount_str)
Cleaned(amount_str) == SelectSeq(amount_str, IsAmountChar)

DigitVal(c) == CASE c = "1" -> 1 [] c = "5" -> 5 [] OTHER -> 0

RECURSIVE DigitsVal(_)
DigitsVal(ds) ==
    IF ds = <<>> THEN 0 ELSE DigitsVal(SubSeq(ds, 1, Len(ds) - 1)) * 10 + DigitVal(ds[Len(ds)])

\* float(text) of a text of digits and dots, in tenths (one decimal kept)
ParseFloat(text) ==
    LET dots == { i \in 1..Len(text) : text[i] = "." }
        digits == { i \in 1..Len(text) : text[i] # "." }
    IN  IF Cardinality(dots) > 1 \/ digits = {}
        THEN [ok |-> FALSE, val |-> 0]
        ELSE LET dot == IF dots = {} THEN Len(text) + 1 ELSE CHOOSE i \in dots : TRUE
                 whole == SubSeq(text, 1, dot - 1)
                 frac == SubSeq(text, dot + 1, Len(text))
             IN  [ok |-> TRUE,
                  val |-> DigitsVal(whole) * 10
                          + (IF frac = <<>> THEN 0 ELSE DigitVal(frac[1]))]

\* the try block of the Save Expense branch: the amount, or ValueError
ValidAmount(amount_str) ==
    LET p == ParseFloat(Cleaned(amount_str))
    IN  IF ~p.ok \/ p.val <= 0 THEN [ok |-> FALSE, val |-> 0] ELSE p

\* every value the category select box can come to hold
FormCategories == {NoCategory} \cup { ToUpper(Strip(n)) : n \in RawNames }

\* st.selectbox("Category", categories)
SelectOptions(cats) ==
    LET options == get_categories(cats)
    IN  IF options = <<>> THEN {NoCategory}
        ELSE { options[i] : i \in 1..Len(options) }

\* db_operations.add_expense called by the form; the form's outcome
FinishSave(f, receipt_url, outcome) ==
    LET r == add_expense(categories, expenses, f.amount, f.category, f.date, receipt_url)
    IN  /\ expenses' = r.exps
        /\ ret' = [Ret("save_expense") EXCEPT
                       !.text = f.text, !.receipt = (outcome # "none"),
                       !.upload = outcome, !.err = r.err, !.ok = (r.err = "none")]
        /\ pc' = "idle"
        /\ form' = NoForm
        /\ show_add_expense' = IF r.err = "none" THEN FALSE ELSE show_add_expense
        /\ UNCHANGED <<categories, selected_month>>

\* slip: the row is written when the form is submitted, before the upload
SaveExpenseCommitFirst(amount_str, category, date, receipt) ==
    /\ pc = "idle"
    /\ show_add_expense
    /\ Len(expenses) < MaxExpenses
    /\ category \in SelectOptions(categories)
    /\ LET a == ValidAmount(amount_str)
           f == [text |-> amount_str, amount |-> a.val, category |-> category,
                 date |-> date]
           r == add_expense(categories, expenses, f.amount, f.category, f.date, NULL)
       IN  IF ~a.ok
           THEN /\ ret' = [Ret("save_expense") EXCEPT
                               !.text = amount_str, !.receipt = receipt,
                               !.err = "validation"]
                /\ UNCHANGED <<categories, expenses, pc, form, session>>
           ELSE IF receipt
           THEN /\ pc' = "uploading"
                /\ form' = f
                /\ expenses' = r.exps
                /\ ret' = [Ret("save_expense") EXCEPT
                               !.text = amount_str, !.receipt = TRUE,
                               !.err = "pending"]
                /\ UNCHANGED <<categories, session>>
           ELSE FinishSave(f, NULL, "none")

\* "Save Expense" pressed: validation, then the upload or the insert
SaveExpense(amount_str, category, date, receipt) ==
    /\ pc = "idle"
    /\ show_add_expense
    /\ Len(expenses) < MaxExpenses
    /\ category \in SelectOptions(categories)
    /\ LET a == ValidAmount(amount_str)
           f == [text |-> amount_str, amount |-> a.val, category |-> category,
                 date |-> date]
       IN  IF ~a.ok
           THEN /\ ret' = [Ret("save_expense") EXCEPT
                               !.text = amount_str, !.receipt = receipt,
                               !.err = "validation"]
                /\ UNCHANGED <<categories, expenses, pc, form, session>>
           ELSE IF receipt
           THEN /\ pc' = "uploading"
                /\ form' = f
                /\ ret' = [Ret("save_expense") EXCEPT
                               !.text = amount_str, !.receipt = TRUE,
                               !.err = "pending"]
                /\ UNCHANGED <<categories, expenses, session>>
           ELSE FinishSave(f, NULL, "none")

\* dropbox_upload.upload_file returns or raises; the handler goes on
UploadReturns(outcome) ==
    /\ pc = "uploading"
    /\ LET u == upload_file(outcome)
       IN  IF u.raised
           THEN /\ ret' = [Ret("save_expense") EXCEPT
                               !.text = form.text, !.receipt = TRUE,
                               !.upload = outcome, !.err = "upload_raised"]
                /\ pc' = "idle"
                /\ form' = NoForm
                /\ UNCHANGED <<categories, expenses, session>>
           ELSE FinishSave(form, u.url, outcome)

\* "Add Category" pressed with the text of "New Category"
FormAddCategory(new_category) ==
    /\ pc = "idle"
    /\ show_add_expense
    /\ IF new_category = <<>>
       THEN /\ ret' = [Ret("form_add_category") EXCEPT !.name = new_category,
                                                       !.err = "not_called"]
            /\ UNCHANGED categories
       ELSE LET r == add_category(categories, ToUpper(Strip(new_category)))
            IN  /\ Len(r.cats) <= MaxCategories
                /\ categories' = r.cats
                /\ ret' = [Ret("form_add_category") EXCEPT !.name = new_category,
                                                           !.ok = r.ok]
    /\ UNCHANGED <<expenses, pc, form, session>>

\* ----------------------------------------------------------- script runs
\* dt.datetime.now().strftime("%b-%y") on the day of the first render
NowLabels == { [mon |-> "Mar", yy |-> 24], [mon |-> "Jan", yy |-> 24] }

\* months_df["month"].tolist()
TileLabels(exps) ==
    LET totals == get_month_totals(exps)
    IN  [i \in 1..Len(totals) |-> totals[i].month]

\* slip: the first tile, the earliest month, taken as the initial selection
InitialMonthFirst(months, now) ==
    IF months # <<>> THEN months[1] ELSE now

\* months[-1] if months else dt.datetime.now().strftime("%b-%y")
InitialMonth(months, now) ==
    IF months # <<>> THEN months[Len(months)] ELSE now

\* a script run with no widget pressed, the first run of a session included
Render(now) ==
    /\ pc = "idle"
    /\ selected_month' =
          IF selected_month = Unset
          THEN InitialMonth(TileLabels(expenses), now)
          ELSE selected_month
    /\ ret' = [Ret("render") EXCEPT !.label = selected_month']
    /\ UNCHANGED <<categories, expenses, pc, form, show_add_expense>>

\* the "Add Expense" button of main pressed
ClickAddExpense ==
    /\ pc = "idle"
    /\ selected_month # Unset
    /\ show_add_expense' = TRUE
    /\ ret' = Ret("click_add_expense")
    /\ UNCHANGED <<categories, expenses, pc, form, selected_month>>

\* a month tile pressed
ClickTile(month) ==
    /\ pc = "idle"
    /\ selected_month # Unset
    /\ \E i \in 1..Len(TileLabels(expenses)) : TileLabels(expenses)[i] = month
    /\ selected_month' = month
    /\ ret' = [Ret("click_tile") EXCEPT !.label = month]
    /\ UNCHANGED <<categories, expenses, pc, form, show_add_expense>>

\* "Cancel" pressed in the form
Cancel ==
    /\ pc = "idle"
    /\ show_add_expense
    /\ show_add_expense' = FALSE
    /\ ret' = Ret("cancel")
    /\ UNCHANGED <<categories, expenses, pc, form, selected_month>>

\* a new browser session: an empty st.session_state over the same store
NewSession ==
    /\ pc = "idle"
    /\ selected_month # Unset
    /\ selected_month' = Unset
    /\ show_add_expense' = FALSE
    /\ ret' = Ret("new_session")
    /\ UNCHANGED <<categories, expenses, pc, form>>

\* a direct call get_categories(conn)
GetCategories ==
    /\ pc = "idle"
    /\ ret' = [Ret("get_categories") EXCEPT !.rows = get_categories(categories)]
    /\ UNCHANGED <<categories, expenses, pc, form, session>>

\* month keys handed to the label translator
Years == { 1968, 1969, 1999, 2000, 2024, 2068, 2069 }
MonthKeys == { [y |-> yr, m |-> mo] : yr \in Years, mo \in 1..12 }

\* the month column of get_month_totals: a key formatted as a label
FormatLabel(key) ==
    /\ ret' = [Ret("to_display") EXCEPT !.key0 = key, !.label = to_display(key)]
    /\ UNCHANGED <<categories, expenses, pc, form, session>>

\* the strptime of get_expenses_by_month applied to that label
ParseLabel ==
    /\ ret.op = "to_display"
    /\ Parsable(ret.label)
    /\ ret' = [Ret("to_month_key") EXCEPT !.key0 = ret.key0, !.label = ret.label,
                                          !.key = to_month_key(ret.label)]
    /\ UNCHANGED <<categories, expenses, pc, form, session>>

\* direct calls of the operations of db_operations
Next ==
    \/ \E n \in ApiNames : AddCategory(n)
    \/ \E a \in ApiAmounts, c \in ExpenseCategoryInputs, dt \in ApiDates :
          AddExpense(a, c, dt)
    \/ GetMonthTotals
    \/ \E l \in LabelInputs : GetExpensesByMonth(l)
    \/ GetCategories

Spec == Init /\ [][Next]_vars

\* the add-expense form of the application
NextApp ==
    \/ Render([mon |-> "Mar", yy |-> 24])
    \/ ClickAddExpense
    \/ \E n \in RawNames : FormAddCategory(n)
    \/ \E t \in AmountInputs, c \in FormCategories, dt \in FormDates,
          r \in BOOLEAN : SaveExpense(t, c, dt, r)
    \/ \E o \in UploadOutcomes : UploadReturns(o)

SpecApp == Init /\ [][NextApp]_vars

\* the label translator applied to month keys
NextLabel ==
    \/ \E k \in MonthKeys : FormatLabel(k)
    \/ ParseLabel

SpecLabel == Init /\ [][NextLabel]_vars

\* one user's sessions: the month tiles and the form
NextSession ==
    \/ \E now \in NowLabels : Render(now)
    \/ ClickAddExpense
    \/ \E l \in LabelInputs : ClickTile(l)
    \/ Cancel
    \/ NewSession
    \/ \E n \in {<<"f">>, <<"g">>} : FormAddCategory(n)
    \/ \E t \in {<<"5">>, <<"0">>}, c \in FormCategories, dt \in FormDates,
          r \in BOOLEAN : SaveExpense(t, c, dt, r)
    \/ \E o \in {"ok", "api_error", "http_error"} : UploadReturns(o)

SpecSession == Init /\ [][NextSession]_vars

\* ------------------------------------------------------------------ claims
Normalized(name) == ToUpper(Strip(name))

\* C1 (as stated): every call add_category(n) returns true exactly when no
\* stored name equals n.strip().upper() up to case and surrounding
\* whitespace, and afterwards exactly one stored name equals n.strip().upper().
C1_CategoryUniqueness ==
    [][ret'.op = "add_category" =>
          /\ ret'.ok = ~(\E i \in 1..Len(categories) :
                            Normalized(categories[i].name) = Normalized(ret'.name))
          /\ Cardinality({ i \in 1..Len(categories') :
                             categories'[i].name = Normalized(ret'.name) }) = 1]_vars

\* the expenses of the calendar month of a key, by position
InMonth(key) ==
    { i \in 1..Len(expenses) : expenses[i].date.y = key.y /\ expenses[i].date.m = key.m }

\* C2: for a valid label get_expenses_by_month returns exactly the expenses
\* dated in that calendar month (the last day included, the first day of
\* the next month excluded), each once, in ascending order of date.
C2_MonthBoundary ==
    (ret.op = "get_expenses_by_month" /\ ret.label # NoLabel /\ Parsable(ret.label)) =>
        LET idx == InMonth(to_month_key(ret.label))
            n == Len(ret.rows)
        IN  /\ ret.err = "none"
            /\ n = Cardinality(idx)
            /\ \E p \in [1..n -> idx] :
                  /\ \A j, k \in 1..n : j # k => p[j] # p[k]
                  /\ \A k \in 1..n :
                        ret.rows[k] = [date |-> expenses[p[k]].date,
                                       category |-> categories[expenses[p[k]].category_id].name,
                                       amount |-> expenses[p[k]].amount]
            /\ \A k \in 1..(n - 1) : ~DateLess(ret.rows[k + 1].date, ret.rows[k].date)

C2_Witness ==
    /\ ret.op = "get_expenses_by_month"
    /\ ret.label = [mon |-> "Jan", yy |-> 24]
    /\ \E i, j \in 1..Len(expenses) :
          /\ expenses[i].date = [y |-> 2024, m |-> 1, d |-> 31]
          /\ expenses[j].date = [y |-> 2024, m |-> 2, d |-> 1]
    /\ Len(ret.rows) = 1
    /\ ret.rows[1].date = [y |-> 2024, m |-> 1, d |-> 31]

\* the sum of the amounts of the expenses at a set of positions
RECURSIVE SumAt(_)
SumAt(idx) ==
    IF idx = {} THEN 0
    ELSE LET i == CHOOSE j \in idx : TRUE IN expenses[i].amount + SumAt(idx \ {i})

\* C3: get_month_totals returns one aggregate per calendar month that has an
\* expense, with the sum of that month's amounts, in chronological order of
\* the months; none when there are no expenses.
C3_MonthTotals ==
    ret.op = "get_month_totals" =>
        LET months == { [y |-> expenses[i].date.y, m |-> expenses[i].date.m] :
                          i \in 1..Len(expenses) }
            n == Len(ret.rows)
        IN  /\ n = Cardinality(months)
            /\ \E ks \in [1..n -> months] :
                  /\ \A j, k \in 1..n :
                        j < k => (ks[j].y * 12 + ks[j].m < ks[k].y * 12 + ks[k].m)
                  /\ \A k \in 1..n :
                        /\ ret.rows[k].month.mon = MonthAbbr[ks[k].m]
                        /\ ret.rows[k].month.yy = ks[k].y % 100
                        /\ ret.rows[k].total = SumAt(InMonth(ks[k]))

C3_Witness ==
    /\ ret.op = "get_month_totals"
    /\ Len(ret.rows) = 2
    /\ ret.rows[1].month = [mon |-> "Jan", yy |-> 24]
    /\ ret.rows[2].month = [mon |-> "Feb", yy |-> 24]

\* C4: add_expense with a category name whose upper-cased form is not stored
\* fails with the category-not-found error and changes neither table.
C4_CategoryNotFound ==
    [][(ret'.op = "add_expense" /\ ToUpper(ret'.name) \notin CategoryNames(categories)) =>
          /\ ret'.err = "CategoryNotFound"
          /\ expenses' = expenses
          /\ categories' = categories]_vars

C4_Witness ==
    /\ ret.op = "add_expense"
    /\ ret.err = "CategoryNotFound"
    /\ categories # <<>>
    /\ ToUpper(ret.name) \notin CategoryNames(categories)

\* C5: every stored expense references a stored category.
C5_NoOrphans ==
    \A i \in 1..Len(expenses) : expenses[i].category_id \in 1..Len(categories)

C5_Witness ==
    /\ Len(expenses) >= 2
    /\ Len(categories) >= 2
    /\ expenses[Len(expenses)].category_id = Len(categories)
    /\ ret.op = "add_expense"
    /\ ret.ok

\* C6 (as stated): get_expenses_by_month with an empty label or with a label
\* that is not a Mon-YY label returns no rows and raises no error.
C6_EmptyOrUnparsableLabel ==
    (ret.op = "get_expenses_by_month" /\ (ret.label = NoLabel \/ ~Parsable(ret.label))) =>
        (ret.err = "none" /\ ret.rows = <<>>)

\* C7 (as stated): a month key of any year, formatted as a label and parsed
\* back, is the same month key.
C7_RoundTripAllYears ==
    ret.op = "to_month_key" => ret.key = ret.key0

\* C7 (amended): a month key of a year from 1969 to 2068, formatted as a
\* label and parsed back, is the same month key.
C7_RoundTrip ==
    (ret.op = "to_month_key" /\ ret.key0.y \in 1969..2068) => ret.key = ret.key0

C7_Witness ==
    /\ ret.op = "to_month_key"
    /\ ret.key0 = [y |-> 1999, m |-> 12]
    /\ ret.label = [mon |-> "Dec", yy |-> 99]
    /\ ret.key = ret.key0

\* outcomes in which the receipt store fails to deliver a reference
UploadFailures == UploadOutcomes \ {"ok", "link_exists"}

\* C8 (as stated): when a save with a valid amount, a selected category and
\* an attached receipt meets a failing upload, the expense row is persisted
\* with a null receipt reference and the save succeeds.
C8_UploadFailureNonBlocking ==
    (ret.op = "save_expense" /\ ret.receipt /\ ret.upload \in UploadFailures
        /\ categories # <<>>) =>
        /\ ret.ok
        /\ expenses # <<>>
        /\ expenses[Len(expenses)].receipt_url = NULL

\* C9: a save inserts at most one row, never at the submission that starts
\* the receipt upload, and only in the step that ends the handler; when a
\* receipt is attached that step is the one in which the upload returned, and
\* the row carries what the upload returned.
C9_CommitAfterUpload ==
    [][/\ Len(expenses') <= Len(expenses) + 1
       /\ (pc' = "uploading" => expenses' = expenses)
       /\ (expenses' # expenses =>
              /\ pc' = "idle"
              /\ ret'.op = "save_expense"
              /\ ret'.receipt = (pc = "uploading")
              /\ (ret'.receipt =>
                     /\ ret'.upload \in UploadOutcomes \ {"http_error"}
                     /\ (ret'.upload \in {"ok", "link_exists"}
                            <=> expenses'[Len(expenses')].receipt_url = ReceiptUrl))
              /\ (~ret'.receipt => expenses'[Len(expenses')].receipt_url = NULL))]_vars

C9_Witness ==
    /\ ret.op = "save_expense"
    /\ ret.receipt
    /\ ret.upload = "ok"
    /\ ret.ok
    /\ pc = "idle"
    /\ expenses[Len(expenses)].receipt_url = ReceiptUrl

\* the entered text without its sign
Unsigned(text) == IF text # <<>> /\ Head(text) = "-" THEN Tail(text) ELSE text

\* the entered text is a decimal number: an optional minus sign, then digits
\* with at most one decimal point
EnteredNumeric(text) ==
    /\ \A i \in 1..Len(Unsigned(text)) : IsAmountChar(Unsigned(text)[i])
    /\ ParseFloat(Unsigned(text)).ok

\* the number entered, in tenths
EnteredValue(text) ==
    IF text # <<>> /\ Head(text) = "-"
    THEN 0 - ParseFloat(Unsigned(text)).val
    ELSE ParseFloat(Unsigned(text)).val

\* C10 (as stated): a save, with a category selected, whose entered amount
\* is not a number or is a number less than or equal to 0 reports the
\* validation error and inserts no row.
C10_InvalidAmountRejected ==
    [][(ret'.op = "save_expense" /\ categories # <<>>
           /\ (~EnteredNumeric(ret'.text) \/ EnteredValue(ret'.text) <= 0)) =>
          (ret'.err = "validation" /\ expenses' = expenses)]_vars

\* C11: get_categories returns every stored name exactly once, in ascending
\* order of the stored names; no names when the table is empty.
C11_CategoriesSorted ==
    ret.op = "get_categories" =>
        /\ Len(ret.rows) = Len(categories)
        /\ { ret.rows[k] : k \in 1..Len(ret.rows) } = CategoryNames(categories)
        /\ \A j, k \in 1..Len(ret.rows) : j < k => StrLess(ret.rows[j], ret.rows[k])

C11_Witness ==
    /\ ret.op = "get_categories"
    /\ Len(categories) = 2
    /\ categories[1].name = <<"G">>
    /\ ret.rows = << <<"F">>, <<"G">> >>

IsPrefix(a, b) == Len(a) <= Len(b) /\ SubSeq(b, 1, Len(a)) = a

\* C12: every operation keeps the rows both tables hold; add_category leaves
\* the expenses alone and appends one category exactly when it succeeds,
\* add_expense leaves the categories alone and appends one expense exactly
\* when it succeeds, and the three queries change neither table.
C12_Frame ==
    [][/\ IsPrefix(categories, categories')
       /\ IsPrefix(expenses, expenses')
       /\ (ret'.op = "add_category" =>
              /\ expenses' = expenses
              /\ Len(categories') = Len(categories) + (IF ret'.ok THEN 1 ELSE 0))
       /\ (ret'.op = "add_expense" =>
              /\ categories' = categories
              /\ Len(expenses') = Len(expenses) + (IF ret'.ok THEN 1 ELSE 0))
       /\ (ret'.op \in {"get_categories", "get_month_totals", "get_expenses_by_month"} =>
              /\ categories' = categories
              /\ expenses' = expenses)]_vars

C12_Witness ==
    /\ ret.op = "add_category"
    /\ ret.ok
    /\ Len(categories) = 2
    /\ expenses # <<>>

\* the sum of the amounts of detail rows
RECURSIVE SumRows(_)
SumRows(rows) == IF rows = <<>> THEN 0 ELSE Head(rows).amount + SumRows(Tail(rows))

\* the detail rows get_expenses_by_month returns for each listed label
DetailOf(totals) ==
    [l \in { totals[k].month : k \in 1..Len(totals) } |->
        get_expenses_by_month(categories, expenses, l).rows]

\* the listed labels whose detail contains the expense at position i
LabelsReturning(detail, i) ==
    { l \in DOMAIN detail :
        \E k \in 1..Len(detail[l]) :
            /\ detail[l][k].date = expenses[i].date
            /\ detail[l][k].amount = expenses[i].amount
            /\ detail[l][k].category = categories[expenses[i].category_id].name }

\* C13 (as stated): the detail rows of every listed label sum to the total
\* listed with it, and every stored expense is in the detail of exactly one
\* listed label.
C13_TotalsAgreeAllYears ==
    LET totals == get_month_totals(expenses)
        detail == DetailOf(totals)
    IN  /\ \A k \in 1..Len(totals) : SumRows(detail[totals[k].month]) = totals[k].total
        /\ \A i \in 1..Len(expenses) : Cardinality(LabelsReturning(detail, i)) = 1

\* the month keys of the stored expenses, in the order of the aggregates
ListedKeys == SortKeys({ Ym(expenses[i].date) : i \in 1..Len(expenses) })

\* C13 (amended): for every aggregate of a month of a year from 1969 to 2068
\* the detail rows of its label sum to its total, and every stored expense
\* dated in those years is in the detail of exactly one listed label.
C13_TotalsAgree ==
    LET totals == get_month_totals(expenses)
        detail == DetailOf(totals)
        keys == ListedKeys
    IN  /\ \A k \in 1..Len(totals) :
              keys[k].y \in 1969..2068 =>
                  SumRows(detail[totals[k].month]) = totals[k].total
        /\ \A i \in 1..Len(expenses) :
              expenses[i].date.y \in 1969..2068 =>
                  Cardinality(LabelsReturning(detail, i)) = 1

C13_Witness ==
    /\ Len(expenses) = 2
    /\ expenses[1].date = [y |-> 2024, m |-> 1, d |-> 31]
    /\ expenses[2].date = [y |-> 2023, m |-> 12, d |-> 31]
    /\ ret.op = "get_expenses_by_month"
    /\ ret.label = [mon |-> "Dec", yy |-> 23]
    /\ SumRows(ret.rows) = get_month_totals(expenses)[1].total

\* the label of the latest month that has an expense
LatestLabel ==
    LET i == CHOOSE j \in 1..Len(expenses) :
                 \A o \in 1..Len(expenses) :
                     expenses[o].date.y * 12 + expenses[o].date.m
                         <= expenses[j].date.y * 12 + expenses[j].date.m
    IN  [mon |-> MonthAbbr[expenses[i].date.m], yy |-> expenses[i].date.y % 100]

\* C14: in a session the selected month is set by the first render, to the
\* label of the latest month that has expenses or to the current month's
\* label when there are none; afterwards only pressing a month tile changes
\* it, to that tile's label; saving an expense, adding a category,
\* cancelling, opening the form and rendering again leave it as it is.
C14_SelectedMonth ==
    [][/\ (selected_month = Unset =>
              /\ ret'.op = "render"
              /\ IF expenses = <<>>
                 THEN selected_month' \in NowLabels
                 ELSE selected_month' = LatestLabel)
       /\ ((selected_month # Unset /\ selected_month' # selected_month) =>
              \/ /\ ret'.op = "click_tile"
                 /\ selected_month' = ret'.label
                 /\ \E i \in 1..Len(expenses) :
                       /\ MonthAbbr[expenses[i].date.m] = ret'.label.mon
                       /\ expenses[i].date.y % 100 = ret'.label.yy
              \/ /\ ret'.op = "new_session"
                 /\ selected_month' = Unset)
       /\ ((selected_month # Unset
              /\ ret'.op \in {"save_expense", "form_add_category", "cancel", "render",
                              "click_add_expense"}) =>
              selected_month' = selected_month)
       /\ (ret'.op = "click_tile" => selected_month' = ret'.label)]_vars

C14_Witness ==
    /\ ret.op = "click_tile"
    /\ selected_month = [mon |-> "Dec", yy |-> 23]
    /\ show_add_expense
    /\ Len(expenses) = 2
    /\ LatestLabel = [mon |-> "Feb", yy |-> 24]
====
